---- MODULE Spec2Model ----
(***************************************************************************)
(* exomem vault: the block identifier, the info-block codec, the Provider  *)
(* (in-memory map fronting temp/<id>.bin) and the Vault engine             *)
(* (initialize / open / create_directory / list).                          *)
(*                                                                         *)
(* A block's bytes are modelled by the structure they encode (the list of  *)
(* nodes); BLAKE3 is modelled as collision free.  Every fs::write is one   *)
(* step of the operation that issues it, so that an operation can be       *)
(* stopped between two writes; fs::write on the pointer file is the two    *)
(* system calls it is made of (open with truncation, then write).          *)
(***************************************************************************)
EXTENDS Integers, Sequences, FiniteSets, TLC

VARIABLES
    disk,       \* temp/<base64(id)>.bin : BlockId -> bytes of the file
    ptr,        \* the vault-id pointer file: <<>> (absent or empty) or <<id>>
    blocks,     \* Provider.blocks : BlockId -> Block (memory of the process)
    vault,      \* the Vault handle of the process (open = FALSE: none)
    pc,         \* position of the process inside the running operation
    loc,        \* locals of the running operation
    log,        \* the fs::write calls issued by the current / last operation
    outcome,    \* what the last finished call returned (ok = FALSE: it panicked)
    lastCreate, \* path of the create_directory call that returned last, if any
    reader      \* last read of the pointer file by another process

vars == <<disk, ptr, blocks, vault, pc, loc, log, outcome, lastCreate, reader>>

----------------------------------------------------------------------------
(* Bounds *)

\* create_directory is not offered when it would give a block more nodes
MaxNodes == 5
\* longest path (in components) offered to create_directory and list
MaxDepth == 3

\* 128 MiB blocks past the first 334 blocks whose boundaries are translated
MaxRepeating == 3

\* most entries of a directory built for directory_list
MaxEntries == 2

\* entry names; ParentDir is Component::ParentDir
ParentDir == ".."
Names == {"welcome", "a", "b", "c"}

RECURSIVE Chain(_, _)
\* the path <<names[1], ..., names[n]>>
Chain(names, n) == IF n = 0 THEN <<>> ELSE Append(Chain(names, n - 1), names[n])

MainLine == <<"a", "b", "c", "b", "a", "c">>

\* the paths handed to create_directory and list: the prefixes of /a/b/c/..,
\* /welcome and a path through a parent component
Paths ==
    { Chain(MainLine, n) : n \in 0..MaxDepth }
        \cup { <<"welcome">>, <<"a", ParentDir>> }

----------------------------------------------------------------------------
(* Option values and small helpers *)

None == <<>>
Some(x) == <<x>>
IsSome(o) == o # <<>>
Unwrap(o) == o[1]

Last(s) == s[Len(s)]

Max(S) == CHOOSE x \in S : \A y \in S : y <= x

EmptyMap == [x \in {} |-> x]

Put(map, k, v) == [x \in DOMAIN map \cup {k} |-> IF x = k THEN v ELSE map[x]]

\* usize::ilog2 (panics on 0: callers test for it)
ILog2(n) == CHOOSE k \in 0..63 : 2 ^ k <= n /\ n < 2 ^ (k + 1)

----------------------------------------------------------------------------
(* The structured payload of an info block *)

\* Id union
\* the id of a new entry written as the ShardId variant
LocalIdAsShard(k) == [tag |-> "ShardId", local |-> k, block |-> None]
LocalId(k) == [tag |-> "LocalId", local |-> k, block |-> None]
BlockIdRef(id) == [tag |-> "BlockId", local |-> 0, block |-> Some(id)]

Entry(name, id) == [name |-> name, id |-> id]

\* Node union
DirectoryNode(entries) ==
    [kind |-> "Directory", entries |-> entries, root |-> None, index |-> None, size |-> 0]
FileNode(size) ==
    [kind |-> "File", entries |-> <<>>, root |-> None, index |-> None, size |-> size]
VaultNode(root, index) ==
    [kind |-> "Vault", entries |-> <<>>, root |-> root, index |-> index, size |-> 0]

\* a message whose root is a Block / an Index
BlockData(nodes) == [root |-> "Block", nodes |-> nodes]
IndexData == [root |-> "Index", nodes |-> <<>>]

RECURSIVE SumSeq(_)
SumSeq(s) == IF s = <<>> THEN 0 ELSE Head(s) + SumSeq(Tail(s))

\* words (8 bytes each) of the single-segment encoding
IdWords(id) == 2 + (IF id.tag = "BlockId" THEN 4 ELSE 0)
OptIdWords(o) == IF IsSome(o) THEN IdWords(Unwrap(o)) ELSE 0
\* the entry struct, its name (a short text: one word) and its id
EntryWords(e) == 2 + 1 + IdWords(e.id)
NodeWords(n) ==
    2 + (CASE n.kind = "Directory" ->
                 2 + SumSeq([i \in 1..Len(n.entries) |-> EntryWords(n.entries[i])])
           [] n.kind = "File" -> 2
           [] n.kind = "Vault" -> 2 + OptIdWords(n.root) + OptIdWords(n.index))

\* Block::size : the length in bytes of the segment
DataLen(data) ==
    8 *
        (IF data.root = "Index" THEN 1
         ELSE 3 + SumSeq([i \in 1..Len(data.nodes) |-> NodeWords(data.nodes[i])]))

----------------------------------------------------------------------------
(* BlockId, EncryptedBlock *)

\* blake3::hash, collision free: the hash stands for the bytes it was taken of
Blake3(data) == <<"blake3", data>>

BlockIdOf(header, hash) == [header |-> header, hash |-> hash]

\* BlockId::set_header.  12 - ilog2(size) is computed in u8: for a size of
\* 2^13 or more the subtraction overflows (a panic in a debug build, a marker
\* above 15 and so the panic of line 77 in a release build); ilog2 panics on 0.
SetHeader(size, has_header) ==
    IF size = 0 THEN [ok |-> FALSE, header |-> 0]
    ELSE LET size_marker == (12 - ILog2(size)) % 256
         IN  IF size_marker > 15 THEN [ok |-> FALSE, header |-> 0]
             ELSE [ok |-> TRUE,
                   header |-> (IF has_header THEN 2 ELSE 0) + size_marker * 4]

\* BlockId::new
NewBlockId(hash, size, has_header) ==
    LET h == SetHeader(size, has_header)
    IN  [ok |-> h.ok, id |-> BlockIdOf(h.header, hash)]

\* BlockId::supported_version
SupportedVersion(id) == id.header % 2 = 0
\* valid with the mask 0b1000_0000: bit 6 is not looked at
ValidMaskBit7(id) == SupportedVersion(id) /\ id.header \div 128 = 0
\* BlockId::valid, block_has_header, block_size
Valid(id) == SupportedVersion(id) /\ id.header \div 64 = 0
BlockHasHeader(id) == (id.header \div 2) % 2 # 0
BlockSize(id) == 2 ^ (12 + ((id.header % 64) \div 4))

\* EncryptedBlock::encrypt / decrypt ("TODO: Actually encrypt": the bytes of
\* the block, unchanged)
Encrypt(block, key) == block
Decrypt(encrypted, key) == encrypted

\* EncryptedBlock::id(BlockKind::Info)
EncryptedId(encrypted) == NewBlockId(Blake3(encrypted), DataLen(encrypted), TRUE)

----------------------------------------------------------------------------
(* InfoBlock codec.  Every operator returns ok = FALSE where the code panics. *)

\* InfoBlock::new_directory, new_index, new_vault
NewDirectory == BlockData(<<DirectoryNode(<<>>)>>)
NewIndex == IndexData
NewVault(root_id, index_id) ==
    BlockData(<<VaultNode(Some(BlockIdRef(root_id)), Some(BlockIdRef(index_id)))>>)

\* nodes_r.get(i) on a list of the block (capnp panics out of bounds)
HasNode(data, idx) == idx + 1 \in 1..Len(data.nodes)
NodeAt(data, idx) == data.nodes[idx + 1]
IsDirectory(data, idx) == HasNode(data, idx) /\ NodeAt(data, idx).kind = "Directory"
IsVault(data, idx) == HasNode(data, idx) /\ NodeAt(data, idx).kind = "Vault"

\* InfoBlock::get_root_id_and_index_id: index_r is read with get_root()
GetRootIdAndIndexId(data) ==
    IF ~IsVault(data, 0) THEN [ok |-> FALSE, root_id |-> None, index_id |-> None]
    ELSE LET root_r == NodeAt(data, 0).root
             index_r == NodeAt(data, 0).root
         IN  IF IsSome(root_r) /\ Unwrap(root_r).tag = "BlockId"
                 /\ IsSome(index_r) /\ Unwrap(index_r).tag = "BlockId"
             THEN [ok |-> TRUE, root_id |-> Unwrap(root_r).block,
                   index_id |-> Unwrap(index_r).block]
             ELSE [ok |-> FALSE, root_id |-> None, index_id |-> None]

\* update_root_id writing the new id to the index field too
UpdateRootIdAndIndex(data, block_id) ==
    IF ~IsVault(data, 0) THEN [ok |-> FALSE, block |-> data]
    ELSE [ok |-> TRUE,
          block |-> [data EXCEPT !.nodes[1].root = Some(BlockIdRef(block_id)),
                                 !.nodes[1].index = Some(BlockIdRef(block_id))]]

\* InfoBlock::update_root_id
UpdateRootId(data, block_id) ==
    IF ~IsVault(data, 0) THEN [ok |-> FALSE, block |-> data]
    ELSE [ok |-> TRUE,
          block |-> [data EXCEPT !.nodes[1].root = Some(BlockIdRef(block_id))]]

\* a node of init_nodes that nothing was written to: the first variant of the
\* union, Node { Directory | File | Vault }, with no entries
DefaultNode == DirectoryNode(<<>>)

\* the node directory_create_local_node initialises for `kind`
\* (NodeKind::Vault: "TODO", the node stays the default variant)
InlineNode(kind) ==
    CASE kind = "Directory" -> DirectoryNode(<<>>)
      [] kind = "File" -> FileNode(1234)
      [] kind = "Vault" -> DefaultNode

\* directory_create_local_node taking the local id one past the new node
DirectoryCreateLocalNodeOffByOne(data, directory_node_idx, name, kind) ==
    IF ~IsDirectory(data, directory_node_idx)
    THEN [ok |-> FALSE, block |-> data, local_id |-> 0]
    ELSE LET next_local_id == Len(data.nodes) + 1
             entries_b == Append(NodeAt(data, directory_node_idx).entries,
                                 Entry(name, LocalId(next_local_id % 65536)))
             nodes_b == [data.nodes EXCEPT ![directory_node_idx + 1].entries = entries_b]
         IN  [ok |-> TRUE,
              block |-> BlockData(Append(nodes_b, InlineNode(kind))),
              local_id |-> next_local_id]

\* directory_create_local_node naming the last old node in the new entry
DirectoryCreateLocalNodeLastOld(data, directory_node_idx, name, kind) ==
    IF ~IsDirectory(data, directory_node_idx)
    THEN [ok |-> FALSE, block |-> data, local_id |-> 0]
    ELSE LET next_local_id == Len(data.nodes)
             entries_b == Append(NodeAt(data, directory_node_idx).entries,
                                 Entry(name, LocalId(next_local_id - 1)))
             nodes_b == [data.nodes EXCEPT ![directory_node_idx + 1].entries = entries_b]
         IN  [ok |-> TRUE,
              block |-> BlockData(Append(nodes_b, InlineNode(kind))),
              local_id |-> next_local_id]

\* InfoBlock::directory_create_local_node
DirectoryCreateLocalNode(data, directory_node_idx, name, kind) ==
    IF ~IsDirectory(data, directory_node_idx)
    THEN [ok |-> FALSE, block |-> data, local_id |-> 0]
    ELSE LET old_nodes_len == Len(data.nodes)
             next_local_id == old_nodes_len
             old_entries == NodeAt(data, directory_node_idx).entries
             entries_b == Append(old_entries,
                                 Entry(name, LocalId(next_local_id % 65536)))
             nodes_b == [data.nodes EXCEPT ![directory_node_idx + 1].entries = entries_b]
         IN  [ok |-> TRUE,
              block |-> BlockData(Append(nodes_b, InlineNode(kind))),
              local_id |-> next_local_id]

\* index of the first entry of `entries` that satisfies P, 0 if none
FirstIndex(entries, P(_)) ==
    IF \E i \in 1..Len(entries) : P(entries[i])
    THEN CHOOSE i \in 1..Len(entries) :
             P(entries[i]) /\ \A j \in 1..(i - 1) : ~P(entries[j])
    ELSE 0

\* the lookup scanning all entries but the last one
DirectoryGetEntryButLast(data, directory_node_idx, entry_name) ==
    IF ~IsDirectory(data, directory_node_idx)
    THEN [ok |-> FALSE, found |-> FALSE, block_id |-> None, node_index |-> 0]
    ELSE LET all == NodeAt(data, directory_node_idx).entries
             entries == SubSeq(all, 1, Len(all) - 1)
             Named(e) == e.name = entry_name
             i == FirstIndex(entries, Named)
         IN  IF i = 0 \/ entries[i].id.tag # "LocalId"
             THEN [ok |-> TRUE, found |-> FALSE, block_id |-> None, node_index |-> 0]
             ELSE [ok |-> TRUE, found |-> TRUE, block_id |-> None,
                   node_index |-> entries[i].id.local]

\* the lookup scanning all entries but the first one
DirectoryGetEntryButFirst(data, directory_node_idx, entry_name) ==
    IF ~IsDirectory(data, directory_node_idx)
    THEN [ok |-> FALSE, found |-> FALSE, block_id |-> None, node_index |-> 0]
    ELSE LET entries == NodeAt(data, directory_node_idx).entries
             Named(e) == e.name = entry_name /\ e # entries[1]
             i == FirstIndex(entries, Named)
         IN  IF i = 0 \/ entries[i].id.tag # "LocalId"
             THEN [ok |-> TRUE, found |-> FALSE, block_id |-> None, node_index |-> 0]
             ELSE [ok |-> TRUE, found |-> TRUE, block_id |-> None,
                   node_index |-> entries[i].id.local]

\* InfoBlock::directory_get_entry_block_id_and_node_index
\* found = FALSE is the code's None; block_id = None a LocalId entry
DirectoryGetEntry(data, directory_node_idx, entry_name) ==
    IF ~IsDirectory(data, directory_node_idx)
    THEN [ok |-> FALSE, found |-> FALSE, block_id |-> None, node_index |-> 0]
    ELSE LET entries == NodeAt(data, directory_node_idx).entries
             Named(e) == e.name = entry_name
             i == FirstIndex(entries, Named)
         IN  IF i = 0
             THEN [ok |-> TRUE, found |-> FALSE, block_id |-> None, node_index |-> 0]
             ELSE CASE entries[i].id.tag = "LocalId" ->
                           [ok |-> TRUE, found |-> TRUE, block_id |-> None,
                            node_index |-> entries[i].id.local]
                    [] entries[i].id.tag = "BlockId" ->
                           [ok |-> TRUE, found |-> TRUE,
                            block_id |-> entries[i].id.block, node_index |-> 0]
                    [] OTHER ->
                           [ok |-> FALSE, found |-> FALSE, block_id |-> None,
                            node_index |-> 0]

\* id_matches of directory_set_entry_block_id_and_node_index
IdMatches(id, block_id, node_index) ==
    CASE id.tag = "LocalId" -> block_id = None /\ id.local = node_index
      [] id.tag = "BlockId" -> IsSome(block_id) /\ block_id = id.block
      [] OTHER -> FALSE

\* InfoBlock::directory_set_entry_block_id_and_node_index
\* changed = FALSE is the code's None
DirectorySetEntry(data, directory_node_idx, entry_name, block_id, node_index) ==
    IF ~IsDirectory(data, directory_node_idx)
    THEN [ok |-> FALSE, changed |-> FALSE, block |-> data]
    ELSE LET entries == NodeAt(data, directory_node_idx).entries
             Stale(e) == e.name = entry_name /\ ~IdMatches(e.id, block_id, node_index)
             Shard(e) == e.name = entry_name /\ e.id.tag = "ShardId"
             i == FirstIndex(entries, Stale)
             s == FirstIndex(entries, Shard)
             new_id == IF IsSome(block_id) THEN BlockIdRef(Unwrap(block_id))
                       ELSE LocalId(node_index)
         IN  IF s # 0 /\ (i = 0 \/ s <= i)
             THEN [ok |-> FALSE, changed |-> FALSE, block |-> data]
             ELSE IF i = 0 THEN [ok |-> TRUE, changed |-> FALSE, block |-> data]
             ELSE [ok |-> TRUE, changed |-> TRUE,
                   block |-> [data EXCEPT
                       !.nodes[directory_node_idx + 1].entries[i].id = new_id]]

\* InfoBlock::directory_list: the (kind, name) pairs, in entry order
DirectoryList(data, node_idx) ==
    IF ~IsDirectory(data, node_idx) THEN [ok |-> FALSE, list |-> <<>>]
    ELSE LET entries == NodeAt(data, node_idx).entries
             Readable(e) == e.id.tag = "LocalId" /\ HasNode(data, e.id.local)
         IN  IF \E i \in 1..Len(entries) : ~Readable(entries[i])
             THEN [ok |-> FALSE, list |-> <<>>]
             ELSE [ok |-> TRUE,
                   list |-> [i \in 1..Len(entries) |->
                       <<NodeAt(data, entries[i].id.local).kind, entries[i].name>>]]

----------------------------------------------------------------------------
(* Provider *)

\* add_block that keeps the block in the map and never writes its file
AddBlockNoWrite(map, d, lg, id, encrypted_block, block) ==
    IF id \in DOMAIN map
    THEN [blocks |-> map, disk |-> d, log |-> lg, ret |-> block]
    ELSE [blocks |-> Put(map, id, block), disk |-> d, log |-> lg, ret |-> block]

\* add_block without the contains_key test: it inserts and writes every time
AddBlockNoCheck(map, d, lg, id, encrypted_block, block) ==
    [blocks |-> Put(map, id, block),
     disk |-> Put(d, id, encrypted_block),
     log |-> Append(lg, "block"),
     ret |-> block]

\* add_block on a Provider that keeps the last block only: the map is
\* replaced by the one entry
AddBlockEvicting(map, d, lg, id, encrypted_block, block) ==
    IF id \in DOMAIN map
    THEN [blocks |-> map, disk |-> d, log |-> lg, ret |-> block]
    ELSE [blocks |-> Put(EmptyMap, id, block),
          disk |-> Put(d, id, encrypted_block),
          log |-> Append(lg, "block"),
          ret |-> block]

\* Provider::add_block: the map, the disk and the write log after the call,
\* and the block it returns
AddBlock(map, d, lg, id, encrypted_block, block) ==
    IF id \in DOMAIN map
    THEN [blocks |-> map, disk |-> d, log |-> lg, ret |-> block]
    ELSE [blocks |-> Put(map, id, block),
          disk |-> Put(d, id, encrypted_block),
          log |-> Append(lg, "block"),
          ret |-> block]

\* Provider::get_block
GetBlock(map, id) ==
    IF id \in DOMAIN map THEN [ok |-> TRUE, block |-> map[id]]
    ELSE [ok |-> FALSE, block |-> NewIndex]

\* Provider::load_block_from_file
LoadBlockFromFile(map, d, id, key) ==
    IF id \in DOMAIN d
    THEN LET block == Decrypt(d[id], key)
         IN  [ok |-> TRUE, blocks |-> Put(map, id, block), block |-> block]
    ELSE [ok |-> FALSE, blocks |-> map, block |-> NewIndex]

\* Provider::load_block_id_from_file: 32 bytes or a panic
LoadBlockIdFromFile(file) ==
    IF Len(file) = 1 THEN [ok |-> TRUE, id |-> file[1]]
    ELSE [ok |-> FALSE, id |-> BlockIdOf(0, <<>>)]

----------------------------------------------------------------------------
(* Vault: the pure parts of create_directory and list *)

NullId == BlockIdOf(0, <<>>)
NoVault ==
    [open |-> FALSE, vault |-> NewIndex, root |-> NewIndex, root_id |-> NullId,
     index |-> NewIndex]

\* blocks.iter().rev().find(|block| block.is_some()): its position
NearestBlock(stack) == Max({i \in 1..Len(stack) : IsSome(stack[i])})

\* the forward walk starting from an empty directory block, not from self.root
WalkStartEmpty(v) ==
    [ok |-> TRUE, blocks |-> <<Some(NewDirectory)>>, entry_names |-> <<"">>,
     node_indexes |-> <<0>>, created_anything |-> FALSE]

\* the state of the forward walk before the first component
WalkStart(v) ==
    [ok |-> TRUE, blocks |-> <<Some(v.root)>>, entry_names |-> <<"">>,
     node_indexes |-> <<0>>, created_anything |-> FALSE]

\* one Component::Normal(name) / Component::ParentDir of the forward walk
WalkComponent(st, map, name) ==
    IF name = ParentDir THEN [st EXCEPT !.ok = FALSE]
    ELSE
    LET k == NearestBlock(st.blocks)
        block == Unwrap(st.blocks[k])
        node_index == Last(st.node_indexes)
        e == DirectoryGetEntry(block, node_index, name)
    IN  IF ~e.ok THEN [st EXCEPT !.ok = FALSE]
        ELSE IF e.found
        THEN IF IsSome(e.block_id)
             THEN LET g == GetBlock(map, Unwrap(e.block_id))
                  IN  IF ~g.ok THEN [st EXCEPT !.ok = FALSE]
                      ELSE [st EXCEPT !.blocks = Append(@, Some(g.block)),
                                      !.node_indexes = Append(@, e.node_index),
                                      !.entry_names = Append(@, name)]
             ELSE [st EXCEPT !.blocks = Append(@, None),
                             !.node_indexes = Append(@, e.node_index),
                             !.entry_names = Append(@, name)]
        ELSE LET c == DirectoryCreateLocalNode(block, node_index, name, "Directory")
             IN  IF ~c.ok THEN [st EXCEPT !.ok = FALSE]
                 ELSE [st EXCEPT
                         !.blocks = Append([@ EXCEPT ![k] = Some(c.block)], None),
                         !.node_indexes = Append(@, c.local_id),
                         !.entry_names = Append(@, name),
                         !.created_anything = TRUE]

RECURSIVE Walk(_, _, _)
\* the loop over path.components() of create_directory
Walk(st, map, components) ==
    IF components = <<>> \/ ~st.ok THEN st
    ELSE Walk(WalkComponent(st, map, Head(components)), map, Tail(components))

\* create_directory refreshing root_id on every call, from the root it held
\* when the call began
CommitCacheRootIdLate(v, created_anything, entry_block, vault_block) ==
    LET w == [v EXCEPT !.root_id = EncryptedId(Encrypt(v.root, 0)).id]
    IN  IF created_anything
        THEN [w EXCEPT !.root = entry_block, !.vault = vault_block]
        ELSE w

\* self.root / self.vault after create_directory (self.root_id is not assigned)
CommitCache(v, created_anything, entry_block, vault_block) ==
    IF created_anything
    THEN [v EXCEPT !.root = entry_block, !.vault = vault_block]
    ELSE v

RECURSIVE GetPathBlockIdAndNodeIndex(_, _, _)
\* Vault::get_path_block_id_and_node_index
GetPathBlockIdAndNodeIndex(v, map, path) ==
    IF path = <<>> THEN [ok |-> TRUE, block_id |-> v.root_id, node_index |-> 0]
    ELSE
    LET parent == GetPathBlockIdAndNodeIndex(v, map, SubSeq(path, 1, Len(path) - 1))
        fail == [ok |-> FALSE, block_id |-> NullId, node_index |-> 0]
    IN  IF ~parent.ok THEN fail
        ELSE LET g == GetBlock(map, parent.block_id)
             IN  IF ~g.ok \/ Last(path) = ParentDir THEN fail
                 ELSE LET e == DirectoryGetEntry(g.block, parent.node_index, Last(path))
                      IN  IF ~e.ok \/ ~e.found THEN fail
                          ELSE [ok |-> TRUE,
                                block_id |-> IF IsSome(e.block_id)
                                             THEN Unwrap(e.block_id)
                                             ELSE parent.block_id,
                                node_index |-> e.node_index]

\* Vault::list
ListOf(v, map, path) ==
    LET at == GetPathBlockIdAndNodeIndex(v, map, path)
    IN  IF ~at.ok THEN [ok |-> FALSE, list |-> <<>>]
        ELSE LET g == GetBlock(map, at.block_id)
             IN  IF ~g.ok THEN [ok |-> FALSE, list |-> <<>>]
                 ELSE DirectoryList(g.block, at.node_index)

----------------------------------------------------------------------------
(* The process *)

NoLoc == [op |-> "none"]
NoRead == [done |-> FALSE, got |-> <<>>, old |-> <<>>, new |-> <<>>]
Outcome(op, path, ok, list, ids, ret) ==
    [op |-> op, path |-> path, ok |-> ok, list |-> list, ids |-> ids, ret |-> ret]
NoOutcome == Outcome("none", <<>>, TRUE, <<>>, <<>>, None)

\* an id no block of the vault gets: the directory block before "welcome"
MissingId == EncryptedId(Encrypt(NewDirectory, 0)).id

\* the blocks of a vault that was initialized and never changed
FreshRoot == DirectoryCreateLocalNode(NewDirectory, 0, "welcome", "Directory").block
FreshRootId == EncryptedId(Encrypt(FreshRoot, 0)).id
FreshIndexId == EncryptedId(Encrypt(NewIndex, 0)).id
FreshVault == NewVault(FreshRootId, FreshIndexId)
FreshVaultId == EncryptedId(Encrypt(FreshVault, 0)).id
FreshIds == {FreshRootId, FreshIndexId, FreshVaultId}

\* the ids get_block is asked for: the one the pointer file holds, the ones
\* the vault block under it names, and one that names no block
RequestedIds ==
    {MissingId} \cup
        (IF ptr = <<>> THEN {}
         ELSE {ptr[1]} \cup
              (IF ptr[1] \in DOMAIN disk /\ IsVault(disk[ptr[1]], 0)
               THEN {Unwrap(o).block[1] :
                        o \in {NodeAt(disk[ptr[1]], 0).root,
                               NodeAt(disk[ptr[1]], 0).index} \ {None}}
               ELSE {}))

Init ==
    /\ disk = EmptyMap
    /\ ptr = <<>>
    /\ blocks = EmptyMap
    /\ vault = NoVault
    /\ pc = "idle"
    /\ loc = NoLoc
    /\ log = <<>>
    /\ outcome = NoOutcome
    /\ lastCreate = None
    /\ reader = NoRead

\* a panic: the process is gone, and with it the Provider map and the handle
PanicWith(ids, op, path) ==
    /\ blocks' = EmptyMap
    /\ vault' = NoVault
    /\ pc' = "idle"
    /\ loc' = NoLoc
    /\ outcome' = Outcome(op, path, FALSE, <<>>, ids, None)
    /\ lastCreate' = None
    /\ UNCHANGED <<disk, ptr>>

Panic(op, path) == PanicWith(<<>>, op, path)

\* the process is stopped (killed, or it returns from main) at any step
Stop ==
    /\ pc # "idle" \/ vault.open \/ blocks # EmptyMap
    /\ blocks' = EmptyMap
    /\ vault' = NoVault
    /\ pc' = "idle"
    /\ loc' = NoLoc
    /\ outcome' = NoOutcome
    /\ lastCreate' = None
    /\ UNCHANGED <<disk, ptr, log, reader>>

(* Vault::initialize *)

\* lines 73-82: the root block with "welcome", added to the provider
\* (initialize is offered on a store that holds no directory made by
\* create_directory: an empty one, or one that was only initialized)
InitializeRoot ==
    /\ pc = "idle"
    /\ DOMAIN disk \subseteq FreshIds
    /\ reader' = NoRead
    /\ LET c == DirectoryCreateLocalNode(NewDirectory, 0, "welcome", "Directory")
           encrypted_root_block == Encrypt(c.block, 0)
           root_id == EncryptedId(encrypted_root_block)
           a == AddBlock(blocks, disk, <<>>, root_id.id, encrypted_root_block, c.block)
       IN  IF ~c.ok \/ ~root_id.ok
           THEN Panic("initialize", <<>>) /\ log' = <<>>
           ELSE /\ blocks' = a.blocks
                /\ disk' = a.disk
                /\ log' = a.log
                /\ pc' = "init_index"
                /\ loc' = [op |-> "initialize", root_block |-> a.ret,
                           root_id |-> root_id.id]
                /\ outcome' = NoOutcome
                /\ lastCreate' = None
                /\ UNCHANGED <<ptr, vault>>

\* lines 87-92: the index block
InitializeIndex ==
    /\ pc = "init_index"
    /\ LET encrypted_index_block == Encrypt(NewIndex, 0)
           index_id == EncryptedId(encrypted_index_block)
           a == AddBlock(blocks, disk, log, index_id.id, encrypted_index_block, NewIndex)
       IN  IF ~index_id.ok
           THEN Panic("initialize", <<>>) /\ UNCHANGED <<log, reader>>
           ELSE /\ blocks' = a.blocks
                /\ disk' = a.disk
                /\ log' = a.log
                /\ pc' = "init_vault"
                /\ loc' = [op |-> "initialize", root_block |-> loc.root_block,
                           root_id |-> loc.root_id, index_block |-> a.ret,
                           index_id |-> index_id.id]
                /\ UNCHANGED <<ptr, vault, outcome, lastCreate, reader>>

\* lines 97-102: the vault block
InitializeVault ==
    /\ pc = "init_vault"
    /\ LET vault_block == NewVault(loc.root_id, loc.index_id)
           encrypted_vault_block == Encrypt(vault_block, 0)
           vault_id == EncryptedId(encrypted_vault_block)
           a == AddBlock(blocks, disk, log, vault_id.id, encrypted_vault_block,
                         vault_block)
       IN  IF ~vault_id.ok
           THEN Panic("initialize", <<>>) /\ UNCHANGED <<log, reader>>
           ELSE /\ blocks' = a.blocks
                /\ disk' = a.disk
                /\ log' = a.log
                /\ pc' = "init_save"
                /\ loc' = [op |-> "initialize", root_block |-> loc.root_block,
                           root_id |-> loc.root_id, index_block |-> loc.index_block,
                           index_id |-> loc.index_id, vault_block |-> a.ret,
                           vault_block_id |-> vault_id.id, old_ptr |-> ptr]
                /\ UNCHANGED <<ptr, vault, outcome, lastCreate, reader>>

\* line 106, fs::write: the pointer file is opened with truncation
InitializeSave ==
    /\ pc = "init_save"
    /\ ptr' = <<>>
    /\ log' = Append(log, "pointer")
    /\ pc' = "init_write"
    /\ UNCHANGED <<disk, blocks, vault, loc, outcome, lastCreate, reader>>

\* line 106, fs::write: the 32 bytes are written; lines 108-115
InitializeWrite ==
    /\ pc = "init_write"
    /\ ptr' = <<loc.vault_block_id>>
    /\ vault' = [open |-> TRUE, vault |-> loc.vault_block, root |-> loc.root_block,
                 root_id |-> loc.root_id, index |-> loc.index_block]
    /\ pc' = "idle"
    /\ loc' = NoLoc
    /\ outcome' = Outcome("initialize", <<>>, TRUE, <<>>,
                          <<loc.root_id, loc.index_id>>, None)
    /\ UNCHANGED <<disk, blocks, log, lastCreate, reader>>

(* Vault::open *)

\* lines 46-67: the handle open builds from the pointer file `file` and the
\* block files `d`, and the Provider map after the three loads
OpenFrom(map, d, file) ==
    LET vault_id == LoadBlockIdFromFile(file)
        v == LoadBlockFromFile(map, d, vault_id.id, 0)
        ids == GetRootIdAndIndexId(v.block)
        r == LoadBlockFromFile(v.blocks, d, Unwrap(ids.root_id), 0)
        x == LoadBlockFromFile(r.blocks, d, Unwrap(ids.index_id), 0)
    IN  IF ~vault_id.ok \/ ~v.ok \/ ~ids.ok \/ ~r.ok \/ ~x.ok
        THEN [ok |-> FALSE, blocks |-> map, vault |-> NoVault, ids |-> <<>>]
        ELSE [ok |-> TRUE,
              blocks |-> x.blocks,
              vault |-> [open |-> TRUE, vault |-> v.block, root |-> r.block,
                         root_id |-> Unwrap(ids.root_id), index |-> x.block],
              ids |-> <<Unwrap(ids.root_id), Unwrap(ids.index_id)>>]

Open ==
    /\ pc = "idle"
    /\ log' = <<>>
    /\ reader' = NoRead
    /\ LET o == OpenFrom(blocks, disk, ptr)
       IN  IF ~o.ok
           THEN Panic("open", <<>>)
           ELSE /\ blocks' = o.blocks
                /\ vault' = o.vault
                /\ outcome' = Outcome("open", <<>>, TRUE, <<>>, o.ids, None)
                /\ lastCreate' = None
                /\ UNCHANGED <<disk, ptr, pc, loc>>

(* Vault::create_directory *)

\* no block of the walk is larger than the model allows
WithinBounds(st) ==
    \A i \in 1..Len(st.blocks) :
        IsSome(st.blocks[i]) => Len(Unwrap(st.blocks[i]).nodes) <= MaxNodes

\* lines 134-190: the forward walk; the call returns here when nothing was created
CreateDirectoryWalk(path) ==
    /\ pc = "idle"
    /\ vault.open
    /\ LET st == Walk(WalkStart(vault), blocks, path)
       IN  /\ WithinBounds(st)
           /\ log' = <<>>
           /\ reader' = NoRead
           /\ IF ~st.ok THEN Panic("create_directory", path)
              ELSE IF ~st.created_anything
              THEN /\ vault' = CommitCache(vault, FALSE, vault.root, vault.vault)
                   /\ outcome' = Outcome("create_directory", path, TRUE,
                                         IF lastCreate = Some(path) THEN <<"again">>
                                         ELSE <<>>, <<>>, None)
                   /\ lastCreate' = Some(path)
                   /\ UNCHANGED <<disk, ptr, blocks, pc, loc>>
              ELSE /\ pc' = "cd_backtrack"
                   /\ loc' = [op |-> "create_directory", path |-> path,
                              blocks |-> st.blocks,
                              node_indexes |-> st.node_indexes,
                              entry_names |-> st.entry_names,
                              i |-> Len(st.blocks),
                              entry_block |-> None, entry_block_id |-> None,
                              entry_node_index |-> None, entry_name |-> None,
                              vault_block |-> NewIndex, vault_block_id |-> NullId,
                              old_ptr |-> ptr]
                   /\ outcome' = NoOutcome
                   /\ lastCreate' = None
                   /\ UNCHANGED <<disk, ptr, blocks, vault>>

\* lines 196-234: one iteration of the backtracking loop (frame loc.i)
CreateDirectoryBacktrack ==
    /\ pc = "cd_backtrack"
    /\ LET i == loc.i
           node_index == loc.node_indexes[i]
           name == loc.entry_names[i]
           next_pc == IF i = 1 THEN "cd_vault" ELSE "cd_backtrack"
       IN  IF IsSome(loc.blocks[i])
           THEN LET old == Unwrap(loc.blocks[i])
                    set == IF IsSome(loc.entry_node_index) /\ IsSome(loc.entry_name)
                           THEN DirectorySetEntry(old, node_index,
                                    Unwrap(loc.entry_name), loc.entry_block_id,
                                    Unwrap(loc.entry_node_index))
                           ELSE [ok |-> TRUE, changed |-> FALSE, block |-> old]
                    block == IF set.changed THEN set.block ELSE old
                    encrypted_block == Encrypt(block, 0)
                    block_id == EncryptedId(encrypted_block)
                    a == AddBlock(blocks, disk, log, block_id.id, encrypted_block, block)
                IN  IF ~set.ok \/ ~block_id.ok
                    THEN Panic("create_directory", loc.path) /\ UNCHANGED <<log, reader>>
                    ELSE /\ blocks' = a.blocks
                         /\ disk' = a.disk
                         /\ log' = a.log
                         /\ pc' = next_pc
                         /\ loc' = [loc EXCEPT !.i = i - 1,
                                        !.blocks[i] = Some(block),
                                        !.entry_block = Some(a.ret),
                                        !.entry_block_id = Some(block_id.id),
                                        !.entry_node_index = Some(node_index % 65536),
                                        !.entry_name = Some(name)]
                         /\ UNCHANGED <<ptr, vault, outcome, lastCreate, reader>>
           ELSE /\ pc' = next_pc
                /\ loc' = [loc EXCEPT !.i = i - 1,
                               !.entry_block = None,
                               !.entry_block_id = None,
                               !.entry_node_index = Some(node_index % 65536),
                               !.entry_name = Some(name)]
                /\ UNCHANGED <<disk, ptr, blocks, vault, log, outcome, lastCreate, reader>>

\* lines 236-242: the new vault block
CreateDirectoryVault ==
    /\ pc = "cd_vault"
    /\ IF ~IsSome(loc.entry_block_id)
       THEN Panic("create_directory", loc.path) /\ UNCHANGED <<log, reader>>
       ELSE LET u == UpdateRootId(vault.vault, Unwrap(loc.entry_block_id))
                encrypted_block == Encrypt(u.block, 0)
                vault_block_id == EncryptedId(encrypted_block)
                a == AddBlock(blocks, disk, log, vault_block_id.id, encrypted_block,
                              u.block)
            IN  IF ~u.ok \/ ~vault_block_id.ok
                THEN Panic("create_directory", loc.path) /\ UNCHANGED <<log, reader>>
                ELSE /\ blocks' = a.blocks
                     /\ disk' = a.disk
                     /\ log' = a.log
                     /\ pc' = "cd_save"
                     /\ loc' = [loc EXCEPT !.vault_block = a.ret,
                                    !.vault_block_id = vault_block_id.id,
                                    !.old_ptr = ptr]
                     /\ UNCHANGED <<ptr, vault, outcome, lastCreate, reader>>

\* line 246, fs::write: the pointer file is opened with truncation
CreateDirectorySave ==
    /\ pc = "cd_save"
    /\ ptr' = <<>>
    /\ log' = Append(log, "pointer")
    /\ pc' = "cd_write"
    /\ UNCHANGED <<disk, blocks, vault, loc, outcome, lastCreate, reader>>

\* line 246, fs::write: the 32 bytes are written; lines 248-249
CreateDirectoryWrite ==
    /\ pc = "cd_write"
    /\ ptr' = <<loc.vault_block_id>>
    /\ vault' = CommitCache(vault, TRUE, Unwrap(loc.entry_block), loc.vault_block)
    /\ pc' = "idle"
    /\ loc' = NoLoc
    /\ outcome' = Outcome("create_directory", loc.path, TRUE, <<"created">>, <<>>, None)
    /\ lastCreate' = Some(loc.path)
    /\ UNCHANGED <<disk, blocks, log, reader>>

(* Vault::list, Provider::get_block *)

List(path) ==
    /\ pc = "idle"
    /\ vault.open
    /\ LET l == ListOf(vault, blocks, path)
       IN  IF ~l.ok THEN Panic("list", path)
           ELSE /\ outcome' = Outcome("list", path, TRUE, l.list, <<>>, None)
                /\ UNCHANGED <<disk, ptr, blocks, vault, pc, loc, lastCreate>>
    /\ UNCHANGED <<log, reader>>

GetBlockCall(id) ==
    /\ pc = "idle"
    /\ LET g == GetBlock(blocks, id)
       IN  IF ~g.ok
           THEN PanicWith(<<id>>, "get_block", <<>>)
           ELSE /\ outcome' = Outcome("get_block", <<>>, TRUE, <<>>, <<id>>, Some(g.block))
                /\ UNCHANGED <<disk, ptr, blocks, vault, pc, loc, lastCreate>>
    /\ UNCHANGED <<log, reader>>

(* another process reads the pointer file while this one writes it *)

ReadPointer ==
    /\ pc \in {"init_save", "init_write", "cd_save", "cd_write"}
    /\ reader' = [done |-> TRUE, got |-> ptr, old |-> loc.old_ptr,
                  new |-> <<loc.vault_block_id>>]
    /\ UNCHANGED <<disk, ptr, blocks, vault, pc, loc, log, outcome, lastCreate>>

Next ==
    \/ InitializeRoot
    \/ InitializeIndex
    \/ InitializeVault
    \/ InitializeSave
    \/ InitializeWrite
    \/ Open
    \/ \E path \in Paths : CreateDirectoryWalk(path)
    \/ CreateDirectoryBacktrack
    \/ CreateDirectoryVault
    \/ CreateDirectorySave
    \/ CreateDirectoryWrite
    \/ \E path \in Paths : List(path)
    \/ \E id \in RequestedIds : GetBlockCall(id)
    \/ ReadPointer
    \/ Stop

Spec == Init /\ [][Next]_vars

----------------------------------------------------------------------------
(* Properties *)

\* the ids a block refers to: the root and index of a vault node, the
\* BlockId entries of a directory node
RefsOfNode(n) ==
    {Unwrap(o).block[1] : o \in {x \in {n.root, n.index} : IsSome(x) /\ Unwrap(x).tag = "BlockId"}}
        \cup {n.entries[i].id.block[1] :
                i \in {j \in 1..Len(n.entries) : n.entries[j].id.tag = "BlockId"}}
RefsOf(data) == UNION {RefsOfNode(data.nodes[i]) : i \in 1..Len(data.nodes)}

RECURSIVE ClosureOnDisk(_, _)
\* the block file of id, and of every block reachable from it, exists
ClosureOnDisk(id, depth) ==
    /\ id \in DOMAIN disk
    /\ depth > 0 => \A r \in RefsOf(disk[id]) : ClosureOnDisk(r, depth - 1)

\* what list returns, on the handle of the process, for every path
AllLists == [q \in Paths |-> ListOf(vault, blocks, q)]

IdOfBlock(block) == EncryptedId(Encrypt(block, 0)).id

\* C1: whenever the pointer file holds an id, the block file of that id and of
\* every block reachable from it (vault block, root, index) is on disk, at
\* every step of initialize and create_directory; and the write of the
\* pointer file is the last write of the operation.
C1_PointerClosureOnDisk ==
    /\ ptr # <<>> => ClosureOnDisk(ptr[1], MaxDepth + 2)
    /\ \A i \in 1..(Len(log) - 1) : log[i] # "pointer"

\* create_directory wrote a new root, a new vault block and then the pointer
C1_Witness ==
    /\ pc = "idle"
    /\ outcome.op = "create_directory"
    /\ log = <<"block", "block", "pointer">>
    /\ ptr # <<>>
    /\ ptr[1] # FreshVaultId
    /\ Cardinality(RefsOf(disk[ptr[1]])) = 2

\* the root block of a fresh vault after create_directory("/a/b/c")
RootWithABC ==
    Unwrap(Walk([ok |-> TRUE, blocks |-> <<Some(FreshRoot)>>, entry_names |-> <<"">>,
                 node_indexes |-> <<0>>, created_anything |-> FALSE],
                EmptyMap, <<"a", "b", "c">>).blocks[1])

\* C2: after create_directory("/a/b/c") on a freshly initialized vault, list
\* on the same handle gives welcome and a for "/", [(Directory, b)] for "/a"
\* and [(Directory, c)] for "/a/b".
C2_ListAfterCreate ==
    (/\ pc = "idle"
     /\ vault.open
     /\ outcome.op = "create_directory"
     /\ outcome.path = <<"a", "b", "c">>
     /\ vault.root = RootWithABC)
    => /\ ListOf(vault, blocks, <<>>) =
              [ok |-> TRUE, list |-> << <<"Directory", "welcome">>, <<"Directory", "a">> >>]
       /\ ListOf(vault, blocks, <<"a">>) =
              [ok |-> TRUE, list |-> << <<"Directory", "b">> >>]
       /\ ListOf(vault, blocks, <<"a", "b">>) =
              [ok |-> TRUE, list |-> << <<"Directory", "c">> >>]

\* the root id a vault block stores (its root field)
StoredRootId(data) == Unwrap(NodeAt(data, 0).root).block[1]
\* the index id a vault block stores (its index field)
StoredIndexId(data) == Unwrap(NodeAt(data, 0).index).block[1]

\* C3: after a create_directory call that created a directory, the cached
\* root_id is the id of the cached root block and the root id stored in the
\* cached vault block, and the pointer file names that vault block.
C3_CachedRootIdCurrent ==
    (/\ pc = "idle"
     /\ outcome.op = "create_directory"
     /\ outcome.list = <<"created">>)
    => /\ vault.root_id = IdOfBlock(vault.root)
       /\ vault.root_id = StoredRootId(vault.vault)
       /\ ptr = <<IdOfBlock(vault.vault)>>

\* C4: open on the pointer file that initialize wrote yields the root id and
\* the index id initialize gave to new_vault, and the index handle is the
\* index block.
C4_OpenYieldsInitIds ==
    (/\ outcome.op = "open"
     /\ outcome.ok
     /\ ptr = <<FreshVaultId>>)
    => /\ outcome.ids = <<FreshRootId, FreshIndexId>>
       /\ vault.index = NewIndex

\* C5: right after initialize, list("/") is exactly [(Directory, welcome)]
\* and list("/welcome") is empty.
C5_ListAfterInitialize ==
    (outcome.op = "initialize" /\ outcome.ok)
    => /\ ListOf(vault, blocks, <<>>) =
              [ok |-> TRUE, list |-> << <<"Directory", "welcome">> >>]
       /\ ListOf(vault, blocks, <<"welcome">>) = [ok |-> TRUE, list |-> <<>>]

C5_Witness ==
    /\ outcome.op = "initialize"
    /\ outcome.ok
    /\ vault.open
    /\ vault.root_id \in DOMAIN blocks
    /\ ptr = <<FreshVaultId>>

\* C6: a create_directory(p) called directly after a create_directory(p) that
\* returned does return, and leaves list(q) what it was, for every path q.
C6_SecondCreateKeepsLists ==
    [][(/\ pc = "idle"
        /\ IsSome(lastCreate)
        /\ \/ pc' = "cd_backtrack" /\ loc'.path = Unwrap(lastCreate)
           \/ /\ pc' = "idle"
              /\ outcome'.op = "create_directory"
              /\ outcome'.path = Unwrap(lastCreate))
       => /\ pc' = "idle"
          /\ outcome'.ok
          /\ \A q \in Paths : ListOf(vault', blocks', q) = ListOf(vault, blocks, q)]_vars

\* /a/b/c was created, and created again
C6_Witness ==
    /\ outcome.op = "create_directory"
    /\ outcome.path = <<"a", "b", "c">>
    /\ outcome.list = <<"again">>
    /\ Len(vault.root.nodes) = 5
    /\ AllLists[<<"welcome">>].ok

\* C7: get_block(id) returns the block whenever the block file of id is on
\* disk (or id is in the map): it fails only when neither has the block.
C7_GetBlockReadsDisk ==
    (outcome.op = "get_block" /\ outcome.ids[1] \in DOMAIN disk)
    => /\ outcome.ok
       /\ outcome.ret = Some(Decrypt(disk[outcome.ids[1]], 0))

\* the add_block call a step has just made: its id and the block it returned
JustAdded ==
    \/ pc \in {"init_index", "init_vault", "init_save", "cd_save"}
    \/ pc \in {"cd_backtrack", "cd_vault"} /\ IsSome(loc.entry_block_id)
AddedId ==
    CASE pc = "init_index" -> loc.root_id
      [] pc = "init_vault" -> loc.index_id
      [] pc \in {"init_save", "cd_save"} -> loc.vault_block_id
      [] OTHER -> Unwrap(loc.entry_block_id)
AddedBlock ==
    CASE pc = "init_index" -> loc.root_block
      [] pc = "init_vault" -> loc.index_block
      [] pc \in {"init_save", "cd_save"} -> loc.vault_block
      [] OTHER -> Unwrap(loc.entry_block)

\* C8: add_block with an id that is in the map leaves the map and the disk as
\* they are, writes no file and returns the block stored under id; with an id
\* that is not in the map it stores the block and writes its file: so a
\* second call with the same id changes nothing.
C8_AddBlockIdempotent ==
    [][(loc' # loc /\ JustAdded')
       => LET before == IF pc = "idle" THEN <<>> ELSE log
          IN  IF AddedId' \in DOMAIN blocks
              THEN /\ blocks' = blocks
                   /\ disk' = disk
                   /\ log' = before
                   /\ AddedBlock' = blocks[AddedId']
              ELSE /\ blocks' = Put(blocks, AddedId', AddedBlock')
                   /\ disk' = Put(disk, AddedId', Encrypt(AddedBlock', 0))
                   /\ log' = Append(before, "block")]_vars

\* initialize in a process whose map already holds the three blocks
C8_Witness ==
    /\ pc = "init_save"
    /\ log = <<>>
    /\ loc.vault_block_id \in DOMAIN blocks
    /\ loc.vault_block_id \in DOMAIN disk

\* C9: a reader of the pointer file, while initialize or create_directory
\* writes it over a complete id, gets the previous id or the new id.
C9_ReaderSeesWholeId ==
    (reader.done /\ Len(reader.old) = 1)
    => reader.got \in {reader.old, reader.new}

\* C10: every id of a block file is valid() and the block size in its header
\* is the length of the encrypted block, the length of the file.
C10_IdSizeIsLength ==
    \A id \in DOMAIN disk :
        /\ Valid(id)
        /\ BlockSize(id) = DataLen(disk[id])

\* the paths of Paths that name no entry of a vault that was only initialized
MissingInFresh == {q \in Paths : q # <<>> /\ q[1] = "a" /\ \A i \in 1..Len(q) : q[i] # ParentDir}

\* C17: list on a path with a component that does not exist hands the caller
\* an error and does not abort the process: the handle and the Provider are
\* still there after the call (here on a vault that was only initialized).
C17_ListMissingPathReturnsError ==
    (/\ outcome.op = "list"
     /\ outcome.path \in MissingInFresh
     /\ ptr = <<FreshVaultId>>)
    => /\ vault.open
       /\ blocks # EmptyMap

----------------------------------------------------------------------------
(* Calls of the functions of block.rs on values drawn from bounded sets:   *)
(* loc holds the arguments of the call, outcome what it returned.  A call  *)
(* is made on fresh values: from the initial state, or on the value the    *)
(* call before it returned.                                                *)

\* the 256 header bytes, and samples of the other 31 bytes (read as a number)
HeaderBytes == 0..255
Rests == {0, 1}

\* BlockId::from_data on the bytes <<header, rest>>
FromData(header, rest) == BlockIdOf(header, rest)

\* the block sizes a size marker encodes, and the sizes handed to BlockId::new
SupportedSizes == {2 ^ k : k \in 12..27}
NewSizes == SupportedSizes \cup {0, 1, 2048, 4095, 4097, 5000, 12288, 2 ^ 28}

\* Ord of BlockId comparing the hash bytes before the header byte
IdLessHashFirst(x, y) ==
    \/ x.hash < y.hash
    \/ x.hash = y.hash /\ x.header < y.header

\* derive(PartialOrd, Ord) on data: [u8; 32]: lexicographic, header byte first
IdLess(x, y) ==
    \/ x.header < y.header
    \/ x.header = y.header /\ x.hash < y.hash

----------------------------------------------------------------------------
(* u32 and u64 arithmetic.  A number is <<l2, l1, l0>>, its value           *)
(* l2 * 2^60 + l1 * 2^30 + l0 with 0 <= l1, l0 < 2^30, so that a u64 and    *)
(* the value a wrapping u64 operation starts from both fit.                 *)

Limb == 2 ^ 30

\* carries (or borrows) moved up; a negative value keeps a negative l2
Norm(l2, l1, l0) ==
    LET m1 == l1 + (l0 \div Limb)
    IN  <<l2 + (m1 \div Limb), m1 % Limb, l0 % Limb>>

\* the number k (0 <= k < 2^31), and 2^e (0 <= e < 64)
OfInt(k) == Norm(0, 0, k)
Pow2(e) ==
    IF e < 30 THEN <<0, 0, 2 ^ e>>
    ELSE IF e < 60 THEN <<0, 2 ^ (e - 30), 0>>
    ELSE <<2 ^ (e - 60), 0, 0>>

NAdd(a, b) == Norm(a[1] + b[1], a[2] + b[2], a[3] + b[3])
NSub(a, b) == Norm(a[1] - b[1], a[2] - b[2], a[3] - b[3])
NLess(a, b) ==
    \/ a[1] < b[1]
    \/ a[1] = b[1] /\ a[2] < b[2]
    \/ a[1] = b[1] /\ a[2] = b[2] /\ a[3] < b[3]
NLeq(a, b) == a = b \/ NLess(a, b)

\* a * 2^e and a / 2^e for 0 <= e <= 30 (a in the u64 range)
NShl(a, e) ==
    LET cut == 2 ^ (30 - e)
    IN  Norm(a[1] * (2 ^ e) + (a[2] \div cut),
             (a[2] % cut) * (2 ^ e) + (a[3] \div cut),
             (a[3] % cut) * (2 ^ e))
NShr(a, e) ==
    LET cut == 2 ^ e
        up == 2 ^ (30 - e)
    IN  Norm(a[1] \div cut,
             (a[1] % cut) * up + (a[2] \div cut),
             (a[2] % cut) * up + (a[3] \div cut))

\* the value in the range of u64 / u32 (wrapping, and `as u32`)
InU64(a) == a[1] \in 0..15
InU32(a) == a[1] = 0 /\ a[2] \in 0..3
WrapU64(a) == <<a[1] % 16, a[2], a[3]>>
WrapU32(a) == <<0, a[2] % 4, a[3]>>

\* u32::count_ones(a) == 1
IsPowerOfTwo(a) == \E e \in 0..31 : a = Pow2(e)
\* the e with a = 2^e
Log2(a) == CHOOSE e \in 0..63 : a = Pow2(e)

\* the result of a +, -, * or / of the machine: `exact` is the mathematical
\* result, `fits` whether it is in the range of the type.  With
\* overflow-checks (a debug build) a result out of range is a panic, without
\* (a release build) it wraps.
Arith(exact, fits, wrapped, overflow_checks) ==
    IF fits THEN [ok |-> TRUE, v |-> exact]
    ELSE IF overflow_checks THEN [ok |-> FALSE, v |-> exact]
    ELSE [ok |-> TRUE, v |-> wrapped]
AddU64(a, b, c) == Arith(NAdd(a, b), InU64(NAdd(a, b)), WrapU64(NAdd(a, b)), c)
SubU64(a, b, c) == Arith(NSub(a, b), InU64(NSub(a, b)), WrapU64(NSub(a, b)), c)
AddU32(a, b, c) == Arith(NAdd(a, b), InU32(NAdd(a, b)), WrapU32(NAdd(a, b)), c)
SubU32(a, b, c) == Arith(NSub(a, b), InU32(NSub(a, b)), WrapU32(NSub(a, b)), c)
\* a * b and a / b for b a power of two up to 2^30 (a / 0 panics in any build)
MulU64(a, b, c) ==
    LET exact == NShl(a, Log2(b))
    IN  Arith(exact, InU64(exact), WrapU64(exact), c)
DivU64(a, b) == NShr(a, Log2(b))

----------------------------------------------------------------------------
(* BlockSize, BlockOffset, FileSize, FileOffset: [ok, v], ok = FALSE where  *)
(* the code panics.  The last parameter of an operator is overflow-checks.  *)

MAX_SIZE_MARKER == 15
MAX_BLOCK_SIZE == Pow2(27)
MAX_FILE_SIZE == NSub(Pow2(59), NShl(OfInt(280), 27))
\* FileOffset::new(7_247_757_312): 6 * 2^30 + 805_306_368
REPEATING_BLOCKS_START_OFFSET == <<0, 6, 805306368>>

Zero == OfInt(0)
Ok(v) == [ok |-> TRUE, v |-> v]
Fail == [ok |-> FALSE, v |-> Zero]

\* BlockSize::from_marker, valid, new, as_offset, Sub
BlockSizeFromMarker(size_marker) ==
    IF size_marker <= MAX_SIZE_MARKER THEN Ok(Pow2(12 + size_marker)) ELSE Fail
BlockSizeValid(size) ==
    /\ IsPowerOfTwo(size)
    /\ WrapU32(NShl(size, 4)) # Zero
    /\ NShr(size, 12) # Zero
BlockSizeNew(size) == IF BlockSizeValid(size) THEN Ok(size) ELSE Fail
BlockSizeSub(a, b, c) == SubU32(a, b, c)

\* BlockOffset::new, Add, Sub
BlockOffsetNew(value) == IF NLess(value, MAX_BLOCK_SIZE) THEN Ok(value) ELSE Fail
BlockSizeAsOffset(size) == BlockOffsetNew(size)
BlockOffsetAdd(a, b, c) == AddU32(a, b, c)
BlockOffsetSub(a, b, c) == SubU32(a, b, c)

\* FileSize::new and FileOffset::new
FileSizeNew(value) == IF NLeq(value, MAX_FILE_SIZE) THEN Ok(value) ELSE Fail
FileOffsetNew(value) == IF NLess(value, MAX_FILE_SIZE) THEN Ok(value) ELSE Fail

\* FileSize::as_block_offset / FileOffset::as_block_offset: (self.0 as u32).into()
AsBlockOffset(v) == BlockOffsetNew(WrapU32(v))
\* FileSize::as_offset
FileSizeAsOffset(v) == FileOffsetNew(v)
\* Add, AddAssign, Sub of FileSize and of FileOffset; Mul, Div of FileOffset
FileAdd(a, b, c) == AddU64(a, b, c)
FileSub(a, b, c) == SubU64(a, b, c)
FileOffsetMul(a, b, c) == IF b = Zero THEN Ok(Zero) ELSE MulU64(a, b, c)
FileOffsetDiv(a, b) == IF b = Zero THEN Fail ELSE Ok(DivU64(a, b))

----------------------------------------------------------------------------
(* InfoBlock::translate_file_offset *)

RECURSIVE ExtraBefore(_)
\* for ii in 4..size_marker { block_index += ii - 3 }
ExtraBefore(size_marker) ==
    IF size_marker <= 4 THEN 0
    ELSE ExtraBefore(size_marker - 1) + (size_marker - 1 - 3)

\* block_index of a block of the inner loop over n (lines 636-642)
ExtraBlockIndex(size_marker, j, n) ==
    size_marker * 16 + j + ExtraBefore(size_marker) + n

\* block_index without the blocks the loop over n just went through
LoopBlockIndexNoExtra(size_marker, j) ==
    size_marker * 16 + j + (IF size_marker > 3 THEN ExtraBefore(size_marker) ELSE 0)

\* block_index of a block of the loop over j (lines 649-657)
LoopBlockIndex(size_marker, j) ==
    size_marker * 16 + j
        + (IF size_marker > 3
           THEN ExtraBefore(size_marker) + (IF j = 15 THEN size_marker - 3 ELSE 0)
           ELSE 0)

NoPlace == [ok |-> FALSE, index |-> Zero, offset |-> Zero, why |-> "panic"]

\* return (block_index.into(), (offset - old_block_offset).as_block_offset())
Place(block_index, offset, start, c) ==
    LET d == FileSub(offset, start, c)
        p == AsBlockOffset(d.v)
    IN  IF d.ok /\ p.ok
        THEN [ok |-> TRUE, index |-> block_index, offset |-> p.v, why |-> "return"]
        ELSE NoPlace

\* the values of j, n and block_start_offset at a block, and of
\* block_start_offset at a size marker
BlockAt == [j : 0..16, n : 0..12, block_start_offset : Int \X Int \X Int]
MarkerAt == [size_marker : 0..16, block_start_offset : Int \X Int \X Int]

\* the loops over j and n for one size_marker, from the block `from` on: the
\* place returned, or (found = FALSE) block_start_offset after the last block
BlocksLoop(offset, size_marker, from, c) ==
    LET block_size == BlockSizeFromMarker(size_marker).v
        loop[at \in BlockAt] ==
            IF at.j = 16
            THEN [found |-> FALSE, place |-> NoPlace,
                  block_start_offset |-> at.block_start_offset]
            ELSE LET extra == size_marker > 3 /\ at.j = 15 /\ at.n < size_marker - 3
                     next == FileAdd(at.block_start_offset, block_size, c)
                     block_index == IF extra THEN ExtraBlockIndex(size_marker, at.j, at.n)
                                    ELSE LoopBlockIndex(size_marker, at.j)
                 IN  IF ~next.ok
                     THEN [found |-> TRUE, place |-> NoPlace,
                           block_start_offset |-> at.block_start_offset]
                     ELSE IF NLess(offset, next.v)
                     THEN [found |-> TRUE,
                           place |-> Place(OfInt(block_index), offset,
                                           at.block_start_offset, c),
                           block_start_offset |-> next.v]
                     ELSE IF extra
                     THEN loop[[at EXCEPT !.n = at.n + 1, !.block_start_offset = next.v]]
                     ELSE loop[[j |-> at.j + 1, n |-> 0, block_start_offset |-> next.v]]
    IN  loop[from]

\* the loop over size_marker; unreachable!() after it
TranslateLoop(offset, c) ==
    LET loop[at \in MarkerAt] ==
            IF at.size_marker = 16 THEN [NoPlace EXCEPT !.why = "unreachable"]
            ELSE LET blocks_loop ==
                         BlocksLoop(offset, at.size_marker,
                                    [j |-> 0, n |-> 0,
                                     block_start_offset |-> at.block_start_offset], c)
                 IN  IF blocks_loop.found THEN blocks_loop.place
                     ELSE loop[[size_marker |-> at.size_marker + 1,
                                block_start_offset |-> blocks_loop.block_start_offset]]
    IN  loop[[size_marker |-> 0, block_start_offset |-> Zero]]

\* InfoBlock::translate_file_offset
TranslateFileOffset(offset, c) ==
    IF NLess(offset, REPEATING_BLOCKS_START_OFFSET)
    THEN TranslateLoop(offset, c)
    ELSE LET repeating_block_size == BlockSizeFromMarker(15).v
             remaining_bytes == FileSub(offset, REPEATING_BLOCKS_START_OFFSET, c)
             remaining_blocks == DivU64(remaining_bytes.v, repeating_block_size)
             product == MulU64(remaining_blocks, repeating_block_size, c)
             remaining_blocks_size == FileSizeNew(product.v)
             as_offset == FileSizeAsOffset(remaining_blocks_size.v)
             last_block_start_offset ==
                 FileAdd(REPEATING_BLOCKS_START_OFFSET, as_offset.v, c)
             block_index == AddU32(OfInt(334), WrapU32(remaining_blocks), c)
         IN  IF /\ remaining_bytes.ok
                /\ product.ok
                /\ remaining_blocks_size.ok
                /\ as_offset.ok
                /\ last_block_start_offset.ok
                /\ block_index.ok
             THEN Place(block_index.v, offset, last_block_start_offset.v, c)
             ELSE NoPlace

----------------------------------------------------------------------------
(* The block schedule of a file, as the test file_offset_translation walks  *)
(* it, and the offsets handed to translate_file_offset                      *)

One == OfInt(1)

\* blocks of size 2^(12 + m): sixteen, and m - 3 more from 64 KiB on
BlocksOfMarker(m) == 16 + (IF m > 3 THEN m - 3 ELSE 0)

RECURSIVE FirstIndexOfMarker(_)
\* index of the first block of size 2^(12 + m); for m = 16 the block count
FirstIndexOfMarker(m) ==
    IF m = 0 THEN 0 ELSE FirstIndexOfMarker(m - 1) + BlocksOfMarker(m - 1)

RECURSIVE StartOfMarker(_)
\* offset of the first block of size 2^(12 + m); for m = 16 the total
StartOfMarker(m) ==
    IF m = 0 THEN Zero
    ELSE NAdd(StartOfMarker(m - 1), NShl(OfInt(BlocksOfMarker(m - 1)), 12 + m - 1))

\* the first 334 blocks: marker and start offset of each
ScheduleHead ==
    [i \in 0..333 |->
        LET m == CHOOSE k \in 0..15 :
                     FirstIndexOfMarker(k) <= i /\ i < FirstIndexOfMarker(k + 1)
        IN  [marker |-> m,
             start |-> NAdd(StartOfMarker(m), NShl(OfInt(i - FirstIndexOfMarker(m)), 12 + m))]]

IsHead(index) == index[1] = 0 /\ index[2] = 0 /\ index[3] < 334
ScheduleSize(index) ==
    IF IsHead(index) THEN Pow2(12 + ScheduleHead[index[3]].marker) ELSE Pow2(27)
ScheduleStart(index) ==
    IF IsHead(index) THEN ScheduleHead[index[3]].start
    ELSE NAdd(StartOfMarker(16), NShl(NSub(index, OfInt(334)), 27))

\* total, total - 1 and total + 1 at every block boundary
BoundaryOffsets ==
    UNION {{NSub(t, One), t, NAdd(t, One)} :
              t \in {ScheduleStart(OfInt(i)) : i \in 1..(334 + MaxRepeating)}}

\* the single offsets of the tests, and offsets at and past MAX_FILE_SIZE
RawOffsets ==
    BoundaryOffsets \cup
        {Zero, OfInt(4000), OfInt(7000), NAdd(Pow2(45), OfInt(123456789)),
         Pow2(50), Pow2(58), NSub(MAX_FILE_SIZE, Pow2(27)), NSub(MAX_FILE_SIZE, One),
         MAX_FILE_SIZE, NAdd(MAX_FILE_SIZE, One), NAdd(MAX_FILE_SIZE, Pow2(27))}

\* values the operators of the four types are applied to
FileSizes == {Zero, One, Pow2(27), NSub(MAX_FILE_SIZE, One), MAX_FILE_SIZE}
FileOffsets == {Zero, One, OfInt(2), Pow2(27), NSub(MAX_FILE_SIZE, One)}
BlockOffsets == {Zero, One, NSub(MAX_BLOCK_SIZE, One)}
BlockSizes == {Pow2(12), Pow2(13), Pow2(27)}
RawValues == {Zero, One, Pow2(12), OfInt(12288), NSub(Pow2(27), One), Pow2(27), Pow2(28),
              NSub(MAX_FILE_SIZE, One), MAX_FILE_SIZE, NAdd(MAX_FILE_SIZE, One)}

Typed(type, r) == IF r.ok THEN Some([type |-> type, v |-> r.v]) ELSE None
CallIn(op, args, c) == [op |-> op, args |-> args, overflow_checks |-> c]
Returned(op, type, r) == Outcome(op, <<>>, r.ok, <<>>, <<>>, Typed(type, r))

----------------------------------------------------------------------------
(* Blocks handed to directory_create_local_node and directory_list *)

NodeKinds == {"Directory", "File", "Vault"}

RECURSIVE SeqsOf(_, _)
\* the sequences over S of length n
SeqsOf(S, n) ==
    IF n = 0 THEN {<<>>}
    ELSE {Append(q, x) : q \in SeqsOf(S, n - 1), x \in S}

KindSeqs == UNION {SeqsOf(NodeKinds, n) : n \in 0..MaxEntries}

RECURSIVE BlockOfKinds(_)
\* new_directory, then directory_create_local_node(0, name, kind) for each kind
BlockOfKinds(kinds) ==
    IF kinds = <<>> THEN NewDirectory
    ELSE DirectoryCreateLocalNode(BlockOfKinds(SubSeq(kinds, 1, Len(kinds) - 1)), 0,
                                  MainLine[Len(kinds)], Last(kinds)).block

\* the block after n calls directory_create_local_node(0, "f", File) on
\* new_directory (as long as the local ids fit 16 bits)
BlockOfFiles(n) ==
    BlockData(<<DirectoryNode([i \in 1..n |-> Entry("f", LocalId(i))])>>
                  \o [i \in 1..n |-> FileNode(1234)])

\* numbers of files: few, and as many as leave one / no local id unused
FileCounts == {0, 1, MaxEntries, 65534, 65535}

Call(op, args) == [op |-> op, args |-> args]

BlockIdNewCall ==
    /\ pc = "idle"
    /\ loc = NoLoc
    /\ \E size \in NewSizes, has_header \in BOOLEAN, rest \in Rests :
           LET n == NewBlockId(rest, size, has_header)
           IN  /\ loc' = Call("BlockId::new", <<rest, size, has_header>>)
               /\ outcome' = Outcome("BlockId::new", <<>>, n.ok, <<>>,
                                     IF n.ok THEN <<n.id>> ELSE <<>>, None)
    /\ UNCHANGED <<disk, ptr, blocks, vault, pc, log, lastCreate, reader>>

BlockIdHeaderCall ==
    /\ pc = "idle"
    /\ loc = NoLoc
    /\ \E header \in HeaderBytes, rest \in Rests :
           LET id == FromData(header, rest)
           IN  /\ loc' = Call("BlockId::from_data", <<header, rest>>)
               /\ outcome' = Outcome("BlockId::from_data", <<>>, TRUE, <<>>, <<id>>,
                                 Some([supported_version |-> SupportedVersion(id),
                                       valid |-> Valid(id),
                                       block_has_header |-> BlockHasHeader(id),
                                       block_size |-> BlockSize(id)]))
    /\ UNCHANGED <<disk, ptr, blocks, vault, pc, log, lastCreate, reader>>

BlockIdCmpCall ==
    /\ pc = "idle"
    /\ loc = NoLoc
    /\ \E hx \in HeaderBytes, hy \in HeaderBytes, rx \in Rests, ry \in Rests :
           LET x == FromData(hx, rx)
               y == FromData(hy, ry)
           IN  /\ loc' = Call("BlockId::cmp", <<x, y>>)
               /\ outcome' = Outcome("BlockId::cmp", <<>>, TRUE, <<>>, <<x, y>>,
                                     Some(IdLess(x, y)))
    /\ UNCHANGED <<disk, ptr, blocks, vault, pc, log, lastCreate, reader>>

\* BlockSize::new, BlockOffset::new, FileSize::new (and From<u32>, From<u64>)
ValueNewCall ==
    /\ pc = "idle"
    /\ loc = NoLoc
    /\ \E type \in {"BlockSize", "BlockOffset", "FileSize"}, value \in RawValues :
           /\ type \in {"BlockSize", "BlockOffset"} => InU32(value)
           /\ loc' = CallIn(type, <<"new", value>>, TRUE)
           /\ outcome' = Returned(type, type,
                             CASE type = "BlockSize" -> BlockSizeNew(value)
                               [] type = "BlockOffset" -> BlockOffsetNew(value)
                               [] type = "FileSize" -> FileSizeNew(value))
    /\ UNCHANGED <<disk, ptr, blocks, vault, pc, log, lastCreate, reader>>

\* FileOffset::new (and From<u64>)
FileOffsetNewCall ==
    /\ pc = "idle"
    /\ loc = NoLoc
    /\ \E value \in RawOffsets, c \in BOOLEAN :
           /\ loc' = CallIn("FileOffset", <<"new", value>>, c)
           /\ outcome' = Returned("FileOffset", "FileOffset", FileOffsetNew(value))
    /\ UNCHANGED <<disk, ptr, blocks, vault, pc, log, lastCreate, reader>>

BlockSizeOpCall ==
    /\ pc = "idle"
    /\ loc = NoLoc
    /\ \E a \in BlockSizes, b \in BlockSizes, c \in BOOLEAN, op \in {"sub", "as_offset"} :
           /\ loc' = CallIn("BlockSize", <<op, a, b>>, c)
           /\ outcome' = IF op = "sub"
                         THEN Returned("BlockSize", "BlockSize", BlockSizeSub(a, b, c))
                         ELSE Returned("BlockSize", "BlockOffset", BlockSizeAsOffset(a))
    /\ UNCHANGED <<disk, ptr, blocks, vault, pc, log, lastCreate, reader>>

BlockOffsetOpCall ==
    /\ pc = "idle"
    /\ loc = NoLoc
    /\ \E a \in BlockOffsets, b \in BlockOffsets, c \in BOOLEAN, op \in {"add", "sub"} :
           /\ loc' = CallIn("BlockOffset", <<op, a, b>>, c)
           /\ outcome' = Returned("BlockOffset", "BlockOffset",
                             IF op = "add" THEN BlockOffsetAdd(a, b, c)
                             ELSE BlockOffsetSub(a, b, c))
    /\ UNCHANGED <<disk, ptr, blocks, vault, pc, log, lastCreate, reader>>

FileSizeOpCall ==
    /\ pc = "idle"
    /\ loc = NoLoc
    /\ \E a \in FileSizes, b \in FileSizes, c \in BOOLEAN,
          op \in {"add", "add_assign", "sub", "as_offset", "as_block_offset"} :
           /\ loc' = CallIn("FileSize", <<op, a, b>>, c)
           /\ outcome' =
                  CASE op \in {"add", "add_assign"} ->
                           Returned("FileSize", "FileSize", FileAdd(a, b, c))
                    [] op = "sub" -> Returned("FileSize", "FileSize", FileSub(a, b, c))
                    [] op = "as_offset" ->
                           Returned("FileSize", "FileOffset", FileSizeAsOffset(a))
                    [] op = "as_block_offset" ->
                           Returned("FileSize", "BlockOffset", AsBlockOffset(a))
    /\ UNCHANGED <<disk, ptr, blocks, vault, pc, log, lastCreate, reader>>

FileOffsetOpCall ==
    /\ pc = "idle"
    /\ loc = NoLoc
    /\ \E a \in FileOffsets, b \in FileOffsets, c \in BOOLEAN,
          op \in {"add", "add_assign", "sub", "mul", "div", "as_size", "as_block_offset"} :
           /\ op \in {"mul", "div"} => b = Zero \/ IsPowerOfTwo(b)
           /\ loc' = CallIn("FileOffset", <<op, a, b>>, c)
           /\ outcome' =
                  CASE op \in {"add", "add_assign"} ->
                           Returned("FileOffset", "FileOffset", FileAdd(a, b, c))
                    [] op = "sub" -> Returned("FileOffset", "FileOffset", FileSub(a, b, c))
                    [] op = "mul" ->
                           Returned("FileOffset", "FileOffset", FileOffsetMul(a, b, c))
                    [] op = "div" ->
                           Returned("FileOffset", "FileOffset", FileOffsetDiv(a, b))
                    [] op = "as_size" -> Returned("FileOffset", "FileSize", Ok(a))
                    [] op = "as_block_offset" ->
                           Returned("FileOffset", "BlockOffset", AsBlockOffset(a))
    /\ UNCHANGED <<disk, ptr, blocks, vault, pc, log, lastCreate, reader>>

\* translate_file_offset on the FileOffset the call before returned
TranslateCall ==
    /\ pc = "idle"
    /\ loc.op = "FileOffset"
    /\ outcome.ok
    /\ IsSome(outcome.ret)
    /\ Unwrap(outcome.ret).type = "FileOffset"
    /\ LET offset == Unwrap(outcome.ret).v
           r == TranslateFileOffset(offset, loc.overflow_checks)
       IN  /\ loc' = CallIn("translate_file_offset", <<offset>>, loc.overflow_checks)
           /\ outcome' = Outcome("translate_file_offset", <<>>, r.ok, <<>>, <<>>,
                                 Some([index |-> r.index, offset |-> r.offset,
                                       why |-> r.why]))
    /\ UNCHANGED <<disk, ptr, blocks, vault, pc, log, lastCreate, reader>>

\* directory_create_local_node(0, "g", kind) on a block of n files: the local
\* id stored in the new entry and the index of the node appended
DirectoryCreateLocalNodeCall ==
    /\ pc = "idle"
    /\ loc = NoLoc
    /\ \E n \in FileCounts, kind \in NodeKinds :
           LET c == DirectoryCreateLocalNode(BlockOfFiles(n), 0, "g", kind)
           IN  /\ loc' = Call("directory_create_local_node", <<n, "g", kind>>)
               /\ outcome' = Outcome("directory_create_local_node", <<>>, c.ok, <<>>, <<>>,
                                 Some([local_id |-> Last(NodeAt(c.block, 0).entries).id.local,
                                       node_index |-> Len(c.block.nodes) - 1,
                                       returned |-> c.local_id]))
    /\ UNCHANGED <<disk, ptr, blocks, vault, pc, log, lastCreate, reader>>

\* directory_list(0) on a directory built with one entry per kind of `kinds`
DirectoryListCall ==
    /\ pc = "idle"
    /\ loc = NoLoc
    /\ \E kinds \in KindSeqs :
           LET l == DirectoryList(BlockOfKinds(kinds), 0)
           IN  /\ loc' = Call("directory_list", <<kinds>>)
               /\ outcome' = Outcome("directory_list", <<>>, l.ok, l.list, <<>>, None)
    /\ UNCHANGED <<disk, ptr, blocks, vault, pc, log, lastCreate, reader>>

NextValues ==
    \/ BlockIdNewCall
    \/ BlockIdHeaderCall
    \/ BlockIdCmpCall
    \/ ValueNewCall
    \/ FileOffsetNewCall
    \/ BlockSizeOpCall
    \/ BlockOffsetOpCall
    \/ FileSizeOpCall
    \/ FileOffsetOpCall
    \/ TranslateCall
    \/ DirectoryCreateLocalNodeCall
    \/ DirectoryListCall

SpecValues == Init /\ [][NextValues]_vars

----------------------------------------------------------------------------
(* Vault::open on a pointer file whose 32 bytes were damaged *)

\* the pointer file of an initialized vault gets another first byte (any of
\* the 256), the other 31 bytes as they were; `planted` says whether a block
\* file named by the damaged id is on disk too (a copy of the vault block's
\* file).  The next process starts from the files: no handle, no Provider map.
CorruptPointer ==
    /\ pc = "idle"
    /\ ptr = <<FreshVaultId>>
    /\ FreshVaultId \in DOMAIN disk
    /\ \E header \in HeaderBytes, planted \in BOOLEAN :
           LET id == FromData(header, FreshVaultId.hash)
           IN  /\ ptr' = <<id>>
               /\ disk' = IF planted THEN Put(disk, id, disk[FreshVaultId]) ELSE disk
    /\ blocks' = EmptyMap
    /\ vault' = NoVault
    /\ outcome' = NoOutcome
    /\ lastCreate' = None
    /\ UNCHANGED <<pc, loc, log, reader>>

NextCorrupt ==
    \/ InitializeRoot
    \/ InitializeIndex
    \/ InitializeVault
    \/ InitializeSave
    \/ InitializeWrite
    \/ Stop
    \/ CorruptPointer
    \/ Open

SpecCorrupt == Init /\ [][NextCorrupt]_vars

\* C18: Vault::open on a pointer file whose id fails valid() fails, whether
\* or not a block file with that id's name is on disk: no handle comes back.
C18_OpenRejectsInvalidPointerId ==
    (/\ outcome.op = "open"
     /\ ptr # <<>>
     /\ ~Valid(ptr[1]))
    => ~outcome.ok

----------------------------------------------------------------------------
(* create_directory on a store in which a directory is a block of its own, *)
(* named by a BlockId entry                                                *)

\* the referenced block: one empty directory, node 0
ChildBlock == NewDirectory
ChildId == IdOfBlock(ChildBlock)

\* "/a" is the referenced block, the entry is held by the root directory
RootHolding == BlockData(<<DirectoryNode(<<Entry("a", BlockIdRef(ChildId))>>)>>)
\* "/a/b" is the referenced block, the entry is held by the inline directory a
InlineHolding ==
    BlockData(<<DirectoryNode(<<Entry("a", LocalId(1))>>),
                DirectoryNode(<<Entry("b", BlockIdRef(ChildId))>>)>>)

\* the block files of a vault whose root block is `root`, and its pointer file
StoreOf(root) ==
    LET vault_block == NewVault(IdOfBlock(root), FreshIndexId)
    IN  [disk |-> Put(Put(Put(Put(EmptyMap, ChildId, Encrypt(ChildBlock, 0)),
                                  IdOfBlock(root), Encrypt(root, 0)),
                              FreshIndexId, Encrypt(NewIndex, 0)),
                          IdOfBlock(vault_block), Encrypt(vault_block, 0)),
         ptr |-> <<IdOfBlock(vault_block)>>]

LinkedStores == {StoreOf(RootHolding), StoreOf(InlineHolding)}

InitLinked ==
    /\ \E st \in LinkedStores : disk = st.disk /\ ptr = st.ptr
    /\ blocks = EmptyMap
    /\ vault = NoVault
    /\ pc = "idle"
    /\ loc = NoLoc
    /\ log = <<>>
    /\ outcome = NoOutcome
    /\ lastCreate = None
    /\ reader = NoRead

\* Provider::load_block_from_file called by the application on the Provider
\* the vault uses
LoadBlockCall(id) ==
    /\ pc = "idle"
    /\ LET l == LoadBlockFromFile(blocks, disk, id, 0)
       IN  IF ~l.ok
           THEN PanicWith(<<id>>, "load_block_from_file", <<>>)
           ELSE /\ blocks' = l.blocks
                /\ outcome' = Outcome("load_block_from_file", <<>>, TRUE, <<>>, <<id>>,
                                      Some(l.block))
                /\ UNCHANGED <<disk, ptr, vault, pc, loc, lastCreate>>
    /\ UNCHANGED <<log, reader>>

\* the ids the walk of create_directory asks get_block for: the ones the
\* BlockId entries of the handle's root block name
LinkedIds == IF vault.open THEN RefsOf(vault.root) ELSE {}

NextLinked ==
    \/ Open
    \/ \E id \in LinkedIds : LoadBlockCall(id)
    \/ \E path \in Paths : CreateDirectoryWalk(path)
    \/ CreateDirectoryBacktrack
    \/ CreateDirectoryVault
    \/ CreateDirectorySave
    \/ CreateDirectoryWrite
    \/ Stop

SpecLinked == InitLinked /\ [][NextLinked]_vars

\* a Provider map that holds every block file
AllLoaded(d) == [id \in DOMAIN d |-> Decrypt(d[id], 0)]

\* the path p names a directory of the vault the pointer file names, block
\* entries followed to their block files
ResolvesOnDisk(d, file, p) ==
    LET o == OpenFrom(AllLoaded(d), d, file)
        at == GetPathBlockIdAndNodeIndex(o.vault, o.blocks, p)
    IN  /\ o.ok
        /\ at.ok
        /\ at.block_id \in DOMAIN d
        /\ IsDirectory(Decrypt(d[at.block_id], 0), at.node_index)

\* C26: when create_directory returns from creating a directory, every
\* component of its path names a directory reachable from the root the
\* pointer file now names, also through the BlockId entry on the path.
C26_CreatedReachableThroughBlockId ==
    (/\ pc = "idle"
     /\ outcome.op = "create_directory"
     /\ outcome.list = <<"created">>)
    => \A n \in 1..Len(outcome.path) :
           ResolvesOnDisk(disk, ptr, SubSeq(outcome.path, 1, n))

\* C11: BlockId::new succeeds for the sixteen supported lengths, with either
\* value of has_header, and the id gives back the length and has_header; for
\* any other length it fails.
C11_NewRoundTrips ==
    outcome.op = "BlockId::new"
    => IF loc.args[2] \in SupportedSizes
       THEN /\ outcome.ok
            /\ BlockSize(outcome.ids[1]) = loc.args[2]
            /\ BlockHasHeader(outcome.ids[1]) = loc.args[3]
       ELSE ~outcome.ok

\* bit i of the byte b
Bit(b, i) == (b \div (2 ^ i)) % 2

\* C12: for each of the 256 header bytes b: supported_version iff bit 0 is
\* zero, valid iff bits 0, 6 and 7 are zero, block_has_header is bit 1,
\* block_size is 2^(12 + bits 2..5); and the other 31 bytes play no part.
C12_HeaderPredicates ==
    outcome.op = "BlockId::from_data"
    => LET b == loc.args[1]
           r == Unwrap(outcome.ret)
       IN  /\ r.supported_version = (Bit(b, 0) = 0)
           /\ r.valid = (Bit(b, 0) = 0 /\ Bit(b, 6) = 0 /\ Bit(b, 7) = 0)
           /\ r.block_has_header = (Bit(b, 1) = 1)
           /\ r.block_size =
                  2 ^ (12 + Bit(b, 2) + 2 * Bit(b, 3) + 4 * Bit(b, 4) + 8 * Bit(b, 5))
           /\ \A rest \in Rests :
                  LET other == FromData(b, rest)
                  IN  r = [supported_version |-> SupportedVersion(other),
                           valid |-> Valid(other),
                           block_has_header |-> BlockHasHeader(other),
                           block_size |-> BlockSize(other)]

\* a header with bit 7 clear and bit 6 set, found not valid
C12_Witness ==
    /\ outcome.op = "BlockId::from_data"
    /\ loc.args[1] = 126
    /\ ~Unwrap(outcome.ret).valid
    /\ Unwrap(outcome.ret).block_size = 2 ^ 27

\* C13 as stated: for any two BlockIds, the one of the smaller block size
\* sorts first.
C13_SmallerSizeSortsFirst ==
    outcome.op = "BlockId::cmp"
    => (BlockSize(outcome.ids[1]) < BlockSize(outcome.ids[2])
        => Unwrap(outcome.ret))

\* C13 amended: for any two BlockIds whose reserved bits 6 and 7 are zero
\* (as in every valid id), the one of the smaller block size sorts first.
C13_SmallerSizeSortsFirstReservedZero ==
    (/\ outcome.op = "BlockId::cmp"
     /\ outcome.ids[1].header < 64
     /\ outcome.ids[2].header < 64)
    => (BlockSize(outcome.ids[1]) < BlockSize(outcome.ids[2])
        => Unwrap(outcome.ret))

\* the ids c and a of the sorting test: 0b0001_1010 sorts before 0b0001_1100,
\* whatever their other bytes
C13_Witness ==
    /\ outcome.op = "BlockId::cmp"
    /\ outcome.ids[1] = FromData(26, 1)
    /\ outcome.ids[2] = FromData(28, 0)
    /\ Unwrap(outcome.ret)

\* C14: translate_file_offset(o) for o < MAX_FILE_SIZE returns the one block
\* i of the schedule whose range [s_i, s_i + size_i) holds o, and p = o - s_i;
\* the 334 blocks of growing size make 7 247 757 312 bytes; unreachable!() is
\* not reached and the index fits 32 bits.
C14_TranslateFollowsSchedule ==
    /\ FirstIndexOfMarker(16) = 334
    /\ StartOfMarker(16) = REPEATING_BLOCKS_START_OFFSET
    /\ (loc.op = "translate_file_offset" /\ NLess(loc.args[1], MAX_FILE_SIZE))
       => LET o == loc.args[1]
              r == Unwrap(outcome.ret)
              s == ScheduleStart(r.index)
          IN  /\ outcome.ok
              /\ r.why = "return"
              /\ InU32(r.index)
              /\ NLeq(s, o)
              /\ NLess(o, NAdd(s, ScheduleSize(r.index)))
              /\ r.offset = NSub(o, s)
              /\ \A k \in 0..(334 + MaxRepeating) :
                     (/\ NLeq(ScheduleStart(OfInt(k)), o)
                      /\ NLess(o, NAdd(ScheduleStart(OfInt(k)), ScheduleSize(OfInt(k)))))
                     => OfInt(k) = r.index

\* translate(MAX_FILE_SIZE - 1) = (u32::MAX, 2^27 - 1)
C14_Witness ==
    /\ loc.op = "translate_file_offset"
    /\ loc.args[1] = NSub(MAX_FILE_SIZE, One)
    /\ outcome.ok
    /\ Unwrap(outcome.ret).index = <<0, 3, Limb - 1>>
    /\ Unwrap(outcome.ret).offset = NSub(Pow2(27), One)

\* C15: an offset of MAX_FILE_SIZE or more is never translated: FileOffset::new
\* fails on it, and translate_file_offset fails on a FileOffset that holds it.
C15_TooLargeNeverTranslated ==
    /\ (/\ loc.op = "FileOffset"
        /\ loc.args[1] = "new"
        /\ ~NLess(loc.args[2], MAX_FILE_SIZE))
       => ~outcome.ok
    /\ (loc.op = "translate_file_offset" /\ ~NLess(loc.args[1], MAX_FILE_SIZE))
       => ~outcome.ok

\* the range of each of the four types
InRange(type, v) ==
    CASE type = "FileSize" -> NLeq(Zero, v) /\ NLeq(v, MAX_FILE_SIZE)
      [] type = "FileOffset" -> NLeq(Zero, v) /\ NLess(v, MAX_FILE_SIZE)
      [] type = "BlockOffset" -> NLeq(Zero, v) /\ NLess(v, Pow2(27))
      [] type = "BlockSize" -> v \in {Pow2(e) : e \in 12..27}

\* C16: every FileSize, FileOffset, BlockOffset and BlockSize a constructor,
\* conversion or operator returns is in the range of its type: an operation
\* whose result would be out of range fails.
C16_ValuesStayInRange ==
    (/\ loc.op \in {"BlockSize", "BlockOffset", "FileSize", "FileOffset"}
     /\ outcome.ok)
    => InRange(Unwrap(outcome.ret).type, Unwrap(outcome.ret).v)

C20_ListGivesCreatedKinds ==
    outcome.op = "directory_list"
    => /\ outcome.ok
       /\ outcome.list =
              [i \in 1..Len(loc.args[1]) |-> <<loc.args[1][i], MainLine[i]>>]

\* the listings reachable from the root id `id`, for every path
ListsFrom(id, map) == [q \in Paths |-> ListOf([vault EXCEPT !.root_id = id], map, q)]

\* C21: no step of initialize, open, create_directory or list removes a block
\* file or changes its bytes, and while the process lives no step removes a
\* block of the Provider map or changes it: so the listings reachable from a
\* root id that was in the map stay what they were.
C21_BlocksImmutable ==
    [][/\ disk' # disk
          => \A id \in DOMAIN disk : id \in DOMAIN disk' /\ disk'[id] = disk[id]
       /\ (blocks' # blocks /\ blocks' # EmptyMap)
          => \A id \in DOMAIN blocks :
                 /\ id \in DOMAIN blocks'
                 /\ blocks'[id] = blocks[id]
                 /\ ListsFrom(id, blocks') = ListsFrom(id, blocks)]_vars

\* create_directory made a new root, and the first root is still in the map
\* and on disk, with welcome as its only entry
C21_Witness ==
    /\ pc = "idle"
    /\ outcome.op = "create_directory"
    /\ outcome.list = <<"created">>
    /\ vault.root # FreshRoot
    /\ FreshRootId \in DOMAIN blocks
    /\ FreshRootId \in DOMAIN disk
    /\ ListsFrom(FreshRootId, blocks)[<<>>].list = << <<"Directory", "welcome">> >>

\* the paths of Paths with a parent component
ParentPaths == {q \in Paths : \E i \in 1..Len(q) : q[i] = ParentDir}

ReopenedList(d, file, q) ==
    LET o == OpenFrom(EmptyMap, d, file)
    IN  IF ~o.ok THEN [ok |-> FALSE, list |-> <<>>] ELSE ListOf(o.vault, o.blocks, q)

\* list(parent(p)) of the reopened vault contains (Directory, file_name(p))
ReopenedHas(d, file, p) ==
    LET l == ReopenedList(d, file, SubSeq(p, 1, Len(p) - 1))
    IN  l.ok /\ \E i \in 1..Len(l.list) : l.list[i] = <<"Directory", Last(p)>>

\* the paths of Paths present in the reopened vault
ReopenedPaths(d, file) == {p \in Paths \ {<<>>} : ReopenedHas(d, file, p)}

\* C23: the vault reopened from the pointer file holds welcome; it holds every
\* component of the path of a create_directory call that has returned; and
\* what it held before a step that writes a block file or the pointer file
\* (before a write of the pointer file: under the id the file held) it holds
\* after it.
C23_ReopenedTreeKeepsEntries ==
    [][LET before == IF pc \in {"init_write", "cd_write"} THEN loc.old_ptr ELSE ptr
       IN  /\ (ptr' # <<>> /\ (ptr' # ptr \/ disk' # disk))
              => /\ ReopenedHas(disk', ptr', <<"welcome">>)
                 /\ before # <<>>
                    => ReopenedPaths(disk, before) \subseteq ReopenedPaths(disk', ptr')
           /\ (/\ pc' = "idle"
               /\ outcome'.op = "create_directory"
               /\ outcome'.ok
               /\ outcome'.path \notin ParentPaths)
              => \A n \in 1..Len(outcome'.path) :
                     ReopenedHas(disk', ptr', SubSeq(outcome'.path, 1, n))]_vars

\* /a/b/c was created in two calls or more, and a new process opened the vault
C23_Witness ==
    /\ outcome.op = "open"
    /\ outcome.ok
    /\ blocks # EmptyMap
    /\ Cardinality(DOMAIN disk) >= 7
    /\ ReopenedPaths(disk, ptr) = {<<"welcome">>, <<"a">>, <<"a", "b">>, <<"a", "b", "c">>}

C25_UpdateRootIdKeepsIndex ==
    /\ pc \in {"cd_save", "cd_write"}
       => /\ IsVault(loc.vault_block, 0)
          /\ Len(loc.vault_block.nodes) = 1
          /\ StoredRootId(loc.vault_block) = Unwrap(loc.entry_block_id)
          /\ StoredIndexId(loc.vault_block) = StoredIndexId(vault.vault)
    /\ vault.open => StoredIndexId(vault.vault) = FreshIndexId
    /\ (ptr # <<>> /\ ptr[1] \in DOMAIN disk)
       => StoredIndexId(disk[ptr[1]]) = FreshIndexId

\* a second create_directory call has made its vault block
C25_Witness ==
    /\ pc = "cd_save"
    /\ vault.vault # FreshVault
    /\ StoredRootId(loc.vault_block) # StoredRootId(vault.vault)
    /\ StoredIndexId(loc.vault_block) = FreshIndexId

\* the (directory, entry) places of `data` whose id is LocalId(k)
PlacesOf(data, k) ==
    {pl \in UNION {{<<i, j>> : j \in 1..Len(NodeAt(data, i).entries)} :
                      i \in 0..(Len(data.nodes) - 1)} :
        /\ NodeAt(data, pl[1]).entries[pl[2]].id.tag = "LocalId"
        /\ NodeAt(data, pl[1]).entries[pl[2]].id.local = k}

\* the inline nodes of a directory block form a tree rooted at node 0
InlineTree(data) ==
    /\ \A i \in 0..(Len(data.nodes) - 1) : \A j \in 1..Len(NodeAt(data, i).entries) :
           LET id == NodeAt(data, i).entries[j].id
           IN  id.tag = "LocalId" => HasNode(data, id.local) /\ id.local > i
    /\ PlacesOf(data, 0) = {}
    /\ \A k \in 1..(Len(data.nodes) - 1) : Cardinality(PlacesOf(data, k)) = 1

\* the directory blocks the process holds or has written
DirectoryBlocks ==
    {b \in {disk[id] : id \in DOMAIN disk} \cup {blocks[id] : id \in DOMAIN blocks}
            \cup {vault.root}
            \cup (IF pc = "cd_backtrack"
                  THEN {Unwrap(loc.blocks[i]) :
                           i \in {j \in 1..Len(loc.blocks) : IsSome(loc.blocks[j])}}
                  ELSE {}) :
        IsDirectory(b, 0)}

\* C27: in every directory block made by initialize or create_directory each
\* LocalId names a node of the block appended after the directory that holds
\* the entry, node 0 is named by no entry and every other node by exactly one.
C27_LocalIdsFormTree == \A b \in DirectoryBlocks : InlineTree(b)

\* the root with welcome, a, a/b and a/b/c is on disk
C27_Witness ==
    /\ IdOfBlock(RootWithABC) \in DOMAIN disk
    /\ RootWithABC \in DirectoryBlocks
    /\ PlacesOf(RootWithABC, 4) = {<<3, 1>>}

RECURSIVE NodeOfPath(_, _)
\* the inline node of `data` the path p names, going down from node 0 by the
\* LocalId entries; -1 if a component names no directory
NodeOfPath(data, p) ==
    IF p = <<>> THEN (IF IsDirectory(data, 0) THEN 0 ELSE -1)
    ELSE LET parent == NodeOfPath(data, SubSeq(p, 1, Len(p) - 1))
             hits == IF parent = -1 THEN {}
                     ELSE {e.id.local :
                             e \in {NodeAt(data, parent).entries[j] :
                                       j \in 1..Len(NodeAt(data, parent).entries)} \cap
                                   {e \in [name : {Last(p)}, id : {LocalId(k) : k \in 0..Len(data.nodes)}] :
                                       IsDirectory(data, e.id.local)}}
         IN  IF hits = {} THEN -1 ELSE CHOOSE k \in hits : TRUE

\* C28: create_directory on a path whose components all exist in the root
\* block of the handle ("/" too) returns without adding a block to the
\* Provider map, writing a file or changing the pointer file or the handle.
C28_ExistingPathChangesNothing ==
    [][\A p \in Paths :
          (/\ pc = "idle"
           /\ vault.open
           /\ NodeOfPath(vault.root, p) # -1
           /\ \/ pc' = "cd_backtrack" /\ loc'.path = p
              \/ /\ pc' = "idle"
                 /\ outcome'.op = "create_directory"
                 /\ outcome'.path = p)
          => /\ pc' = "idle"
             /\ outcome'.ok
             /\ log' = <<>>
             /\ UNCHANGED <<disk, ptr, blocks, vault>>]_vars

\* create_directory("/a/b") returned on a handle whose root held /a/b/c
C28_Witness ==
    /\ pc = "idle"
    /\ outcome.op = "create_directory"
    /\ outcome.ok
    /\ outcome.path = <<"a", "b">>
    /\ outcome.list = <<>>
    /\ NodeOfPath(vault.root, <<"a", "b", "c">>) = 4

\* no two entries of a directory of `data` have the same name
NamesDistinct(data) ==
    \A i \in 0..(Len(data.nodes) - 1) :
        LET entries == NodeAt(data, i).entries
        IN  \A j, k \in 1..Len(entries) : entries[j].name = entries[k].name => j = k

\* C29: no directory of a block made by initialize or create_directory holds
\* two entries with the same name.
C29_NoDuplicateNames == \A b \in DirectoryBlocks : NamesDistinct(b)

\* the root directory holds welcome and a, after a was asked for twice
C29_Witness ==
    /\ outcome.op = "create_directory"
    /\ outcome.path = <<"a">>
    /\ outcome.list = <<"again">>
    /\ Len(NodeAt(vault.root, 0).entries) = 2
    /\ IdOfBlock(vault.root) \in DOMAIN disk

\* every entry of every directory of `data` is a LocalId
OnlyLocalIds(data) ==
    \A i \in 0..(Len(data.nodes) - 1) :
        \A j \in 1..Len(NodeAt(data, i).entries) :
            NodeAt(data, i).entries[j].id.tag = "LocalId"

====
